---- MODULE Spec2Model ----
(***************************************************************************)
(* Model of PointCloudExporter (scripts/PointCloudExport.py): the export   *)
(* pipeline findFromSelection -> findLineSegments -> findBoundingBox ->     *)
(* sampleSD -> write, over a Maya scene of NSphere nodes.                   *)
(*                                                                         *)
(* Numbers: the scene's coordinates, scales and the voxel size are          *)
(* integers.  Every value the pipeline computes from them (sums, products,  *)
(* quotients rounded by ceil/floor, repeated addition of the voxel size)    *)
(* is then an integer that a double represents exactly, so the integer      *)
(* arithmetic below is the arithmetic the code performs on such inputs.     *)
(* The signed distance itself (a square root) is held exactly, as           *)
(* (sqrt(q) - rad) / den for integers q, rad, den: sampleSD reads its sign, *)
(* and smin compares its product with the smoothness against the range of   *)
(* math.exp.                                                                *)
(***************************************************************************)
EXTENDS Integers, Sequences, FiniteSets, TLC

\* Number of NSphere nodes in the scene.
MaxNodes == 3
\* Cap on the iterations of the findLineSegments loop (never reached by the code's loop).
MaxVisits == 12

Nodes == 0 .. (MaxNodes - 1)

VARIABLES
    parentN,        \* scene: node -> set holding the node at the source of its parentN plug (empty: plug isNull)
    childN,         \* scene: node -> sequence of the nodes at the destinations of its childN plug
    translate,      \* scene: node -> translate of its transform node
    scale,          \* scene: node -> scale of its transform node
    selectionList,  \* scene: the active selection list
    voxelSize,      \* export argument _voxelSize
    smoothness,     \* export argument _smoothness
    pc,             \* position of export
    raised,         \* the exception export ended with ("" when none)
    rootNode,       \* export: rootNode, <<>> for None
    uncheckedN,     \* findLineSegments: nodes that need to be checked
    checkedN,       \* findLineSegments: nodes that have already been checked
    lineSegments,   \* findLineSegments: flat list [x, y, z, r, x, y, z, r, ...]
    bbox,           \* export: bbox = <<minBB, maxBB>>, <<>> before findBoundingBox returns
    cursor,         \* sampleSD: the values the three frange generators are at, <<x, y, z>>
    points,         \* sampleSD: points
    disk,           \* the file at the target path: <<>> when absent, <<lines>> when present
    outputFile      \* write: state of the handle outputFile, "none" | "open" | "closed"

scene == <<parentN, childN, translate, scale, selectionList, voxelSize, smoothness>>
extraction == <<rootNode, uncheckedN, checkedN, lineSegments>>
sampling == <<bbox, cursor, points>>
output == <<disk, outputFile>>
vars == <<parentN, childN, translate, scale, selectionList, voxelSize, smoothness,
          pc, raised, rootNode, uncheckedN, checkedN, lineSegments, bbox, cursor, points,
          disk, outputFile>>

(***************************************************************************)
(* Helpers                                                                 *)
(***************************************************************************)
\* Python's max() and min() over a non-empty sequence
MaxOf(s) == CHOOSE v \in {s[i] : i \in 1 .. Len(s)} : \A j \in 1 .. Len(s) : s[j] <= v
MinOf(s) == CHOOSE v \in {s[i] : i \in 1 .. Len(s)} : \A j \in 1 .. Len(s) : v <= s[j]

\* n in checkedN (MObjectArray membership)
InArray(n, arr) == \E i \in 1 .. Len(arr) : arr[i] = n

\* The ascending sequence of the elements of a finite set of integers
RECURSIVE SortedSeq(_)
SortedSeq(S) ==
    IF S = {} THEN <<>>
    ELSE LET m == CHOOSE v \in S : \A w \in S : v <= w
         IN  <<m>> \o SortedSeq(S \ {m})

(***************************************************************************)
(* findLineSegments                                                        *)
(***************************************************************************)
\* [x, y, z, r] of a node: translate of its transform and max(scale)
NodeData(n) ==
    <<translate[n][1], translate[n][2], translate[n][3], MaxOf(scale[n])>>

\* Mutant of AppendChildren: the test "n not in checkedN" is missing
AppendChildrenUnchecked(unchecked, children, checked) == unchecked \o children

\* for p in childPlugs: n = p.node(); if n not in checkedN: uncheckedN.append(n)
RECURSIVE AppendChildren(_, _, _)
AppendChildren(unchecked, children, checked) ==
    IF children = <<>> THEN unchecked
    ELSE AppendChildren(
            IF InArray(Head(children), checked)
                THEN unchecked
                ELSE Append(unchecked, Head(children)),
            Tail(children), checked)

\* Mutant of FindFromSelection: export lacks the test "rootNode is not None",
\* so findLineSegments runs on None and setObject raises
FindFromSelectionNoNoneTest ==
    /\ pc = "export"
    /\ IF selectionList = <<>>
         THEN /\ pc' = "raised"
              /\ raised' = "TypeError"
              /\ UNCHANGED <<rootNode, uncheckedN>>
         ELSE /\ rootNode' = <<Head(selectionList)>>
              /\ uncheckedN' = <<Head(selectionList)>>
              /\ pc' = "findLineSegments"
              /\ UNCHANGED raised
    /\ UNCHANGED <<scene, checkedN, lineSegments, sampling, output>>

\* findFromSelection, and the start of findLineSegments
FindFromSelection ==
    /\ pc = "export"
    /\ IF selectionList = <<>>
         THEN /\ pc' = "done"
              /\ UNCHANGED <<rootNode, uncheckedN>>
         ELSE /\ rootNode' = <<Head(selectionList)>>
              /\ uncheckedN' = <<Head(selectionList)>>
              /\ pc' = "findLineSegments"
    /\ UNCHANGED <<scene, raised, checkedN, lineSegments, sampling, output>>

\* One iteration of the while loop of findLineSegments
FindLineSegmentsStep ==
    /\ pc = "findLineSegments"
    /\ Len(uncheckedN) > 0
    /\ Len(checkedN) < MaxVisits
    /\ LET node == uncheckedN[Len(uncheckedN)]
           rest == SubSeq(uncheckedN, 1, Len(uncheckedN) - 1)
           checked == Append(checkedN, node)
       IN  /\ checkedN' = checked
           /\ lineSegments' =
                IF parentN[node] # {}
                    THEN lineSegments
                            \o NodeData(CHOOSE p \in parentN[node] : TRUE)
                            \o NodeData(node)
                    ELSE lineSegments
           /\ uncheckedN' = AppendChildren(rest, childN[node], checked)
    /\ UNCHANGED <<scene, pc, raised, rootNode, sampling, output>>

\* Mutant of FindLineSegmentsReturn: export turns an empty list into one
\* capsule with both ends at the root sphere
FindLineSegmentsReturnDegenerate ==
    /\ pc = "findLineSegments"
    /\ Len(uncheckedN) = 0
    /\ lineSegments' = IF lineSegments = <<>>
                          THEN NodeData(rootNode[1]) \o NodeData(rootNode[1])
                          ELSE lineSegments
    /\ pc' = "findBoundingBox"
    /\ UNCHANGED <<scene, raised, rootNode, uncheckedN, checkedN, sampling, output>>

\* The loop ends, findLineSegments returns, and export tests len(lineSegments) > 7
FindLineSegmentsReturn ==
    /\ pc = "findLineSegments"
    /\ Len(uncheckedN) = 0
    /\ pc' = IF Len(lineSegments) > 7 THEN "findBoundingBox" ELSE "done"
    /\ UNCHANGED <<scene, raised, extraction, sampling, output>>

(***************************************************************************)
(* findBoundingBox                                                         *)
(***************************************************************************)
\* math.floor(a / b) and math.ceil(a / b) of the quotient of two integers, b # 0
FloorDiv(a, b) == IF b > 0 THEN a \div b ELSE (0 - a) \div (0 - b)
CeilDiv(a, b) == 0 - FloorDiv(0 - a, b)

\* zip(*[iter(data)] * 8): the complete groups of 8 values
Groups(data) ==
    [g \in 1 .. (Len(data) \div 8) |-> SubSeq(data, 8 * (g - 1) + 1, 8 * g)]

\* (x - r, x + r, y - r, y + r, z - r, z + r)
Extents(x, y, z, r) == <<x - r, x + r, y - r, y + r, z - r, z + r>>

\* The list xyz: the child of every group, then the first four values of the data
ExtentsList(data) ==
    [g \in 1 .. Len(Groups(data)) |->
        Extents(Groups(data)[g][5], Groups(data)[g][6],
                Groups(data)[g][7], Groups(data)[g][8])]
    \o <<Extents(data[1], data[2], data[3], data[4])>>

\* Mutant of ExtentsReduced: min(xyzT[i]) if i % 2 else max(xyzT[i])
ExtentsReducedSwapped(data) ==
    LET xyz == ExtentsList(data)
        column(i) == [j \in 1 .. Len(xyz) |-> xyz[j][i]]
    IN  [i \in 1 .. 6 |-> IF i % 2 = 0 THEN MinOf(column(i)) ELSE MaxOf(column(i))]

\* xyzMin: max of the columns x + r, y + r, z + r and min of the columns x - r, y - r, z - r
ExtentsReduced(data) ==
    LET xyz == ExtentsList(data)
        column(i) == [j \in 1 .. Len(xyz) |-> xyz[j][i]]
    IN  [i \in 1 .. 6 |-> IF i % 2 = 0 THEN MaxOf(column(i)) ELSE MinOf(column(i))]

\* math.ceil(v / s) * s if v > 0 else math.floor(v / s) * s
SnapToVoxel(v, s) ==
    IF v > 0 THEN CeilDiv(v, s) * s ELSE FloorDiv(v, s) * s

\* findBoundingBox(_sdCapsuleData, _voxelSize), for _voxelSize # 0
findBoundingBox(data, s) ==
    LET xyz == [i \in 1 .. 6 |-> SnapToVoxel(ExtentsReduced(data)[i], s)]
    IN  <<  <<xyz[1], xyz[3], xyz[5]>>, <<xyz[2], xyz[4], xyz[6]>>  >>

\* export calls findBoundingBox; _sdCapsuleData[0] raises IndexError on an empty
\* list and v / _voxelSize raises ZeroDivisionError for 0.0.
\* sampleSD then creates the three generators at the lower corner.
FindBoundingBox ==
    /\ pc = "findBoundingBox"
    /\ IF Len(lineSegments) < 4
         THEN /\ pc' = "raised"
              /\ raised' = "IndexError"
              /\ UNCHANGED sampling
         ELSE IF voxelSize = 0
         THEN /\ pc' = "raised"
              /\ raised' = "ZeroDivisionError"
              /\ UNCHANGED sampling
         ELSE /\ bbox' = findBoundingBox(lineSegments, voxelSize)
              /\ cursor' = bbox'[1]
              /\ points' = <<>>
              /\ pc' = "sampleSD"
              /\ UNCHANGED raised
    /\ UNCHANGED <<scene, extraction, output>>

(***************************************************************************)
(* calculateSD, sdCapsule, smin                                            *)
(***************************************************************************)
Dot(u, v) == u[1] * v[1] + u[2] * v[2] + u[3] * v[3]
Sub(u, v) == <<u[1] - v[1], u[2] - v[2], u[3] - v[3]>>
Times(u, k) == <<u[1] * k, u[2] * k, u[3] * k>>
Sign(v) == IF v < 0 THEN 0 - 1 ELSE IF v = 0 THEN 0 ELSE 1

\* h = (pa * ba) / (ba * ba) raises ZeroDivisionError when ba * ba = 0.0
sdCapsuleRaises(a, b) == Dot(Sub(b, a), Sub(b, a)) = 0

\* sdCapsule(_pos, _a, _r1, _b, _r2), for a # b, as the triple <<q, rad, den>>
\* that stands for the value (sqrt(q) - rad) / den.  With den = ba * ba > 0 and
\* h = hn / den clamped to [0, 1]:
\*   den * ((pa - ba * h).length() - _r1 - h * (_r2 - _r1)) = |v| - rad
sdCapsule(pos, a, r1, b, r2) ==
    LET pa == Sub(pos, a)
        ba == Sub(b, a)
        den == Dot(ba, ba)
        num == Dot(pa, ba)
        hn == IF num > den THEN den ELSE IF num < 0 THEN 0 ELSE num
        v == Sub(Times(pa, den), Times(ba, hn))
        rad == r1 * den + hn * (r2 - r1)
    IN  <<Dot(v, v), rad, den>>

\* The sign of the value (sqrt(q) - rad) / den
SdSign(d) == IF d[2] < 0 THEN 1 ELSE Sign(d[1] - d[2] * d[2])

\* floor and ceiling of (p / q) squared, for p >= 0 and q > 0
SquareFloor(p, q) ==
    (p \div q) * (p \div q) + FloorDiv(2 * (p \div q) * (p % q) * q + (p % q) * (p % q), q * q)
SquareCeil(p, q) ==
    (p \div q) * (p \div q) + CeilDiv(2 * (p \div q) * (p % q) * q + (p % q) * (p % q), q * q)

\* k * value >= t and k * value <= -t for the value d = <<q, rad, den>>, k > 0:
\*   k * (sqrt(q) - rad) / den >= t   iff  sqrt(q) >= (k * rad + t * den) / k
\*   k * (sqrt(q) - rad) / den <= -t  iff  sqrt(q) <= (k * rad - t * den) / k
ScaledAtLeast(k, d, t) ==
    IF k * d[2] + t * d[3] <= 0
      THEN TRUE
      ELSE d[1] >= SquareCeil(k * d[2] + t * d[3], k)
ScaledAtMostMinus(k, d, t) ==
    IF k * d[2] - t * d[3] < 0
      THEN FALSE
      ELSE d[1] <= SquareFloor(k * d[2] - t * d[3], k)

\* math.exp(x) raises OverflowError when x exceeds the logarithm of the largest
\* double (709.78...); taken at the next integer
ExpOverflowsAt == 710
\* math.exp(-x) is 0.0 when x exceeds 745.13..., the negated logarithm of half
\* the smallest double; taken at the next integer
ExpVanishesAt == 746

\* How smin(_k, _values) ends for _k > 0: math.exp(minusK * value) raises
\* OverflowError for a value far enough below zero; when every exponential is
\* 0.0 the sum res is 0.0 and math.log(res) raises ValueError; "" when it returns.
sminRaises(k, values) ==
    IF \E i \in 1 .. Len(values) : ScaledAtMostMinus(k, values[i], ExpOverflowsAt)
      THEN "OverflowError"
    ELSE IF \A i \in 1 .. Len(values) : ScaledAtLeast(k, values[i], ExpVanishesAt)
      THEN "ValueError"
    ELSE ""

\* The sign of smin(_k, _values) for _k > 0 when it returns:
\* math.copysign(result, minV) is negative exactly when minV is; with minV < 0
\* the sum of exponentials exceeds 1, so result is not zero.
\* A result that is not negative is given as 1.
smin(k, values) ==
    IF MinOf([i \in 1 .. Len(values) |-> SdSign(values[i])]) < 0 THEN 0 - 1 ELSE 1

\* sDistances, when no sdCapsule raises
sDistances(pos, data) ==
    [g \in 1 .. Len(Groups(data)) |->
        LET s == Groups(data)[g]
        IN  sdCapsule(pos, <<s[1], s[2], s[3]>>, s[4], <<s[5], s[6], s[7]>>, s[8])]

\* The sign of calculateSD(_pos, _sdCapsuleData, _k), when it returns
calculateSD(pos, data, k) == smin(k, sDistances(pos, data))

\* How calculateSD(_pos, _sdCapsuleData, _k) ends: the exception of the first
\* sdCapsule that raises, else that of smin, "" when it returns
calculateSDRaises(pos, data, k) ==
    IF \E g \in 1 .. Len(Groups(data)) :
          LET s == Groups(data)[g]
          IN  sdCapsuleRaises(<<s[1], s[2], s[3]>>, <<s[5], s[6], s[7]>>)
      THEN "ZeroDivisionError"
      ELSE sminRaises(k, sDistances(pos, data))

(***************************************************************************)
(* sampleSD and frange                                                     *)
(***************************************************************************)
\* Cap on the magnitude of the coordinates the generators reach (they are
\* within the bounding box when the voxel size is positive).
MaxCoord == 12

\* Mutant of frangeHasNext: while value <= _end
frangeHasNextInclusive(value, end) == value <= end

\* frange: while value < _end
frangeHasNext(value, end) == value < end

\* One step of the three nested loops of sampleSD: the innermost generator that
\* has a value yields it and the body runs; an exhausted generator ends its
\* loop and the enclosing generator advances by _voxelSize.
SampleSDStep ==
    /\ pc = "sampleSD"
    /\ \A i \in 1 .. 3 : cursor[i] <= MaxCoord /\ 0 - MaxCoord <= cursor[i]
    /\ LET x == cursor[1]
           y == cursor[2]
           z == cursor[3]
           minBB == bbox[1]
           maxBB == bbox[2]
       IN  IF ~ frangeHasNext(x, maxBB[1])
             THEN /\ pc' = "write"
                  /\ UNCHANGED <<cursor, points, raised>>
           ELSE IF ~ frangeHasNext(y, maxBB[2])
             THEN /\ cursor' = <<x + voxelSize, minBB[2], minBB[3]>>
                  /\ UNCHANGED <<pc, points, raised>>
           ELSE IF ~ frangeHasNext(z, maxBB[3])
             THEN /\ cursor' = <<x, y + voxelSize, minBB[3]>>
                  /\ UNCHANGED <<pc, points, raised>>
           ELSE IF calculateSDRaises(<<x, y, z>>, lineSegments, smoothness) # ""
             THEN /\ pc' = "raised"
                  /\ raised' = calculateSDRaises(<<x, y, z>>, lineSegments, smoothness)
                  /\ UNCHANGED <<cursor, points>>
           ELSE /\ points' = IF calculateSD(<<x, y, z>>, lineSegments, smoothness) < 0
                                THEN Append(points, <<x, y, z>>)
                                ELSE points
                /\ cursor' = <<x, y, z + voxelSize>>
                /\ UNCHANGED <<pc, raised>>
    /\ UNCHANGED <<scene, extraction, bbox, output>>

(***************************************************************************)
(* write and writeLine                                                     *)
(***************************************************************************)
\* str() of a float that holds an integer, and of an int
StrFloat(v) == ToString(v) \o ".0"
StrInt(n) == ToString(n)

\* The lines write passes to writeLine, in order
Header(pts) ==
    << "ply",
       "format ascii 1.0",
       "comment point cloud data",
       "element vertex " \o StrInt(Len(pts)),
       "property float x",
       "property float y",
       "property float z",
       "element face 0",
       "property list uchar int vertex_indices",
       "end_header" >>

\* Mutant of PointLine: the coordinates are written in the order y x z
PointLineYXZ(p) == StrFloat(p[2]) \o " " \o StrFloat(p[1]) \o " " \o StrFloat(p[3])

PointLine(p) == StrFloat(p[1]) \o " " \o StrFloat(p[2]) \o " " \o StrFloat(p[3])

WriteLines(pts) == Header(pts) \o [i \in 1 .. Len(pts) |-> PointLine(pts[i])]

\* file(_filePath + ".ply", "w") succeeds: the file is created or truncated
WriteOpen ==
    /\ pc = "write"
    /\ disk' = << <<>> >>
    /\ outputFile' = "open"
    /\ pc' = "writeLine"
    /\ UNCHANGED <<scene, raised, extraction, sampling>>

\* file(_filePath + ".ply", "w") raises IOError: nothing is created
WriteOpenFails ==
    /\ pc = "write"
    /\ pc' = "raised"
    /\ raised' = "IOError"
    /\ UNCHANGED <<scene, extraction, sampling, output>>

\* The next writeLine succeeds
WriteLine ==
    /\ pc = "writeLine"
    /\ Len(disk[1]) < Len(WriteLines(points))
    /\ disk' = << Append(disk[1], WriteLines(points)[Len(disk[1]) + 1]) >>
    /\ UNCHANGED <<scene, pc, raised, extraction, sampling, outputFile>>

\* The next writeLine raises IOError, which leaves write and export; nothing
\* closes outputFile, and the traceback keeps the frame that holds it
WriteLineFails ==
    /\ pc = "writeLine"
    /\ Len(disk[1]) < Len(WriteLines(points))
    /\ pc' = "raised"
    /\ raised' = "IOError"
    /\ UNCHANGED <<scene, extraction, sampling, output>>

\* Mutant of WriteReturn: write may return once the header is written, before
\* the loop over the points has ended
WriteReturnEarly ==
    /\ pc = "writeLine"
    /\ Len(disk[1]) >= 10
    /\ outputFile' = "closed"
    /\ pc' = "done"
    /\ UNCHANGED <<scene, raised, extraction, sampling, disk>>

\* write returns after the last line: its local outputFile is dropped and the
\* file object is finalised; export prints "File written."
WriteReturn ==
    /\ pc = "writeLine"
    /\ Len(disk[1]) = Len(WriteLines(points))
    /\ outputFile' = "closed"
    /\ pc' = "done"
    /\ UNCHANGED <<scene, raised, extraction, sampling, disk>>

(***************************************************************************)
(* Scenes and specifications                                               *)
(***************************************************************************)
\* Largest voxel size passed to export
MaxVoxel == 2

\* Translates of the transform nodes
Positions == { <<0 - 3, 0, 0>>, <<2, 1, 1>>, <<4, 1, 1>> }

\* Values of _smoothness: the default of the smoothness slider, and a value for
\* which a field value of -1 is at the overflow threshold of math.exp
Smoothness == {4, 710}

\* What a file left at the target path by an earlier export holds
OldFile == <<"ply", "old contents">>

\* Before export is called: nothing computed
InitExport ==
    /\ pc = "export"
    /\ raised = ""
    /\ rootNode = <<>>
    /\ uncheckedN = <<>>
    /\ checkedN = <<>>
    /\ lineSegments = <<>>
    /\ bbox = <<>>
    /\ cursor = <<>>
    /\ points = <<>>
    /\ outputFile = "none"

\* childN destinations when every connection is childN -> parentN: the nodes
\* whose parentN plug has m at its source
ChildrenOf(par, m) == SortedSeq({c \in Nodes : par[c] = {m}})

\* Scenes of the export pipeline: the first `used` nodes form a tree rooted at
\* node 0 (node i is the child of node 0 or of node i - 1), the others are
\* unconnected spheres; any translate; any voxel size, zero and negative included;
\* either smoothness;
\* nothing or one node selected; no file at the target path, or an old one.
Init ==
    /\ \E used \in 1 .. MaxNodes :
         /\ parentN \in { par \in [Nodes -> SUBSET Nodes] :
                            \A i \in Nodes :
                               IF i = 0 \/ i >= used
                                  THEN par[i] = {}
                                  ELSE par[i] \in { {0}, {i - 1} } }
         /\ translate \in { tr \in [Nodes -> Positions] :
                            \A i \in Nodes : i >= used => tr[i] = <<2, 1, 1>> }
    /\ childN = [m \in Nodes |-> ChildrenOf(parentN, m)]
    /\ scale = [i \in Nodes |-> IF i = 1 THEN <<1, 2, 1>> ELSE <<1, 1, 1>>]
    /\ selectionList \in { <<>> } \cup { <<n>> : n \in Nodes }
    /\ voxelSize \in (0 - 1) .. MaxVoxel
    /\ smoothness \in Smoothness
    /\ disk \in { <<>>, <<OldFile>> }
    /\ InitExport

Next ==
    \/ FindFromSelection
    \/ FindLineSegmentsStep
    \/ FindLineSegmentsReturn
    \/ FindBoundingBox
    \/ SampleSDStep
    \/ WriteOpen
    \/ WriteOpenFails
    \/ WriteLine
    \/ WriteLineFails
    \/ WriteReturn

Spec == Init /\ [][Next]_vars


\* Scenes of findLineSegments: any source for every parentN plug (cycles and
\* self-connections included), childN connected to those parentN plugs and to at
\* most one further plug of some node; fixed geometry; any node selected.
InitExtract ==
    /\ parentN \in [Nodes -> { {} } \cup { {p} : p \in Nodes }]
    /\ \E extra \in { <<>> } \cup { <<a, b>> : a \in Nodes, b \in Nodes } :
         childN = [m \in Nodes |->
                     ChildrenOf(parentN, m)
                        \o (IF extra # <<>> /\ extra[1] = m THEN <<extra[2]>> ELSE <<>>)]
    /\ translate = [i \in Nodes |-> <<3 * i, 0, 0>>]
    /\ scale = [i \in Nodes |-> <<1, 1, 1>>]
    /\ selectionList \in { <<n>> : n \in Nodes }
    /\ voxelSize = 1
    /\ smoothness = 4
    /\ disk = <<>>
    /\ InitExport

NextExtract ==
    \/ FindFromSelection
    \/ FindLineSegmentsStep
    \/ FindLineSegmentsReturn

SpecExtract == InitExtract /\ [][NextExtract]_vars

\* export runs to completion once called: a step that can be taken is taken
FairSpecExtract == SpecExtract /\ WF_vars(NextExtract)

\* Largest magnitude of a sphere coordinate in the segment lists given to
\* findBoundingBox on its own
MaxExtent == 2

\* The four values (x, y, z, radius) of a sphere.  The axes are treated alike by
\* findBoundingBox, so y mirrors x and z is fixed; the radius is max(scale) of a
\* sphere whose scale is not negative.
Spheres == { <<x, 0 - x, 0, r>> : x \in (0 - MaxExtent) .. MaxExtent, r \in 0 .. 2 }

\* Segment lists as findLineSegments builds them: parent values then child
\* values; the parent of a second segment is an endpoint of the first.
TwoSegments(a, b) == { a \o b \o p \o c : p \in {a, b}, c \in Spheres }
SegmentLists ==
    { a \o b : a \in Spheres, b \in Spheres }
        \cup UNION { TwoSegments(a, b) : a \in Spheres, b \in Spheres }

\* findBoundingBox called on any of these segment lists with any positive voxel
\* size, voxels wider than a sphere included
InitBounds ==
    /\ parentN = [n \in Nodes |-> {}]
    /\ childN = [n \in Nodes |-> <<>>]
    /\ translate = [n \in Nodes |-> <<0, 0, 0>>]
    /\ scale = [n \in Nodes |-> <<1, 1, 1>>]
    /\ selectionList = <<>>
    /\ voxelSize \in 1 .. (2 * MaxVoxel)
    /\ smoothness = 4
    /\ disk = <<>>
    /\ outputFile = "none"
    /\ pc = "findBoundingBox"
    /\ raised = ""
    /\ rootNode = <<>>
    /\ uncheckedN = <<>>
    /\ checkedN = <<>>
    /\ lineSegments \in SegmentLists
    /\ bbox = <<>>
    /\ cursor = <<>>
    /\ points = <<>>

NextBounds == FindBoundingBox

SpecBounds == InitBounds /\ [][NextBounds]_vars

(***************************************************************************)
(* Properties                                                              *)
(***************************************************************************)
\* findLineSegments has returned
Extracted == pc \notin {"export", "findLineSegments"} /\ rootNode # <<>>

\* The file at the target path and the handle are as they were before export
Untouched == disk \in { <<>>, <<OldFile>> } /\ outputFile = "none"

\* C1: for a non-empty segment list and voxelSize > 0 the box returned by
\* findBoundingBox contains, on every axis, coordinate - radius and
\* coordinate + radius of both endpoints of every segment.
C1_BoxContainsEveryExtremum ==
    (bbox # <<>> /\ voxelSize > 0) =>
        \A g \in 1 .. Len(Groups(lineSegments)) : \A e \in {0, 4} : \A axis \in 1 .. 3 :
            LET s == Groups(lineSegments)[g]
            IN  /\ s[e + axis] - s[e + 4] >= bbox[1][axis]
                /\ s[e + axis] + s[e + 4] <= bbox[2][axis]

\* The nodes reachable from the nodes of S through childN destinations
RECURSIVE ReachableFrom(_)
ReachableFrom(S) ==
    LET T == S \cup { childN[n][i] : <<n, i>> \in
                        { <<m, j>> \in S \X (1 .. MaxNodes + 1) : j <= Len(childN[m]) } }
    IN  IF T = S THEN S ELSE ReachableFrom(T)

Count(n, arr) == Cardinality({ i \in 1 .. Len(arr) : arr[i] = n })

\* C2: once findLineSegments has returned, every node reachable from the root
\* through child links was visited exactly once (no other node was visited), and
\* the list holds exactly one segment per visited node with a parent link.
C2_EachNodeVisitedOnce ==
    Extracted =>
        LET reach == ReachableFrom({rootNode[1]})
        IN  /\ \A n \in Nodes : Count(n, checkedN) = (IF n \in reach THEN 1 ELSE 0)
            /\ Len(lineSegments) = 8 * Cardinality({ n \in reach : parentN[n] # {} })

\* A node that reaches itself through child links
OnCycle(n) ==
    n \in ReachableFrom({ childN[n][i] : i \in 1 .. Len(childN[n]) })

\* C3: findLineSegments terminates on every finite graph, cyclic ones included:
\* the worklist becomes empty and the segment list is returned.
C3_FindLineSegmentsTerminates == <>(pc \notin {"export", "findLineSegments"})

\* C3 witness: findLineSegments has returned from a visit of a node on a cycle
C3_Witness ==
    /\ Extracted
    /\ uncheckedN = <<>>
    /\ \E n \in Nodes : InArray(n, checkedN) /\ OnCycle(n)

\* C4: when nothing is selected, or extraction yields fewer than 8 values,
\* export is a silent no-op: findBoundingBox, sampleSD and write are never
\* entered, nothing is raised, and the target path is left as it was.
C4_TooFewValuesIsSilentNoOp ==
    (selectionList = <<>> \/ (Extracted /\ Len(lineSegments) < 8)) =>
        /\ pc \in {"export", "done"}
        /\ raised = ""
        /\ bbox = <<>> /\ cursor = <<>> /\ points = <<>>
        /\ Untouched

\* C4 witness: export has ended after an extraction that yielded no segment
C4_Witness ==
    /\ pc = "done"
    /\ Extracted
    /\ checkedN # <<>>
    /\ Len(lineSegments) < 8

\* A sphere with no parent link and no child link
Isolated(n) == parentN[n] = {} /\ childN[n] = <<>>

\* export has ended for a selected isolated sphere
IsolatedSphereExported ==
    /\ pc \in {"done", "raised"}
    /\ rootNode # <<>>
    /\ Isolated(rootNode[1])

\* C5 as stated: for a selected isolated sphere extraction returns no segment
\* and export still samples and writes a point cloud for it.
C5_IsolatedSphereIsExported ==
    IsolatedSphereExported =>
        /\ lineSegments = <<>>
        /\ bbox # <<>>
        /\ outputFile = "closed"
        /\ disk = <<WriteLines(points)>>

\* C5 amended: for a selected isolated sphere extraction returns no segment and
\* export ends there: no capsule is formed for the sphere, no box is computed,
\* nothing is sampled, the target path is left as it was, nothing is raised.
C5_IsolatedSphereIsNoOp ==
    (Extracted /\ Isolated(rootNode[1])) =>
        /\ checkedN = rootNode
        /\ lineSegments = <<>>
        /\ pc = "done"
        /\ raised = ""
        /\ bbox = <<>> /\ cursor = <<>> /\ points = <<>>
        /\ Untouched

\* C5 witness: export has ended for a selected isolated sphere
C5_Witness == IsolatedSphereExported /\ checkedN = rootNode

\* C6: with voxelSize <= 0 export ends in an error whatever the graph: it does
\* not complete silently, writes no file and never enters a sampling loop that
\* does not terminate.  Read in favour of the code: the calls that C4 makes a
\* no-op are left out, any exception counts as the error outcome, and the
\* sampling loop counts only once a generator has left the box on its lower side.
C6_NonPositiveVoxelSizeEndsInError ==
    (voxelSize <= 0 /\ Extracted /\ Len(lineSegments) > 7) =>
        /\ pc # "done"
        /\ pc \notin {"write", "writeLine"}
        /\ Untouched
        /\ ~ (pc = "sampleSD" /\ \E i \in 1 .. 3 : cursor[i] < bbox[1][i])

\* sampleSD has just returned
Sampled == pc = "write"

\* p is a grid point min + i * voxelSize of the half-open box [min, max)
OnGrid(p) ==
    \A i \in 1 .. 3 :
        /\ bbox[1][i] <= p[i]
        /\ p[i] < bbox[2][i]
        /\ (p[i] - bbox[1][i]) % voxelSize = 0

\* x outer, y middle, z inner: p is traversed before q
TraversedBefore(p, q) ==
    \/ p[1] < q[1]
    \/ p[1] = q[1] /\ p[2] < q[2]
    \/ p[1] = q[1] /\ p[2] = q[2] /\ p[3] < q[3]

\* The points of a sequence
PointSet(pts) == { pts[i] : i \in 1 .. Len(pts) }

\* The coordinates of the closed box, whatever the sign of its sides
BoxPoints ==
    { p \in (bbox[1][1] .. bbox[2][1]) \X (bbox[1][2] .. bbox[2][2])
              \X (bbox[1][3] .. bbox[2][3]) : TRUE }

Written == pc = "done" /\ outputFile = "closed"

\* C8: write emits the ten header lines, the fourth being "element vertex N"
\* with N = len(points), then exactly N lines, the i-th holding the i-th point
\* as "x y z"; no points gives the header alone with "element vertex 0".
C8_FileIsHeaderAndOneLinePerPoint ==
    Written =>
        /\ Len(disk) = 1
        /\ Len(disk[1]) = 10 + Len(points)
        /\ SubSeq(disk[1], 1, 3) = <<"ply", "format ascii 1.0", "comment point cloud data">>
        /\ disk[1][4] = "element vertex " \o ToString(Len(points))
        /\ SubSeq(disk[1], 5, 10) =
              << "property float x", "property float y", "property float z",
                 "element face 0", "property list uchar int vertex_indices",
                 "end_header" >>
        /\ \A i \in 1 .. Len(points) :
              disk[1][10 + i] = ToString(points[i][1]) \o ".0 "
                                  \o ToString(points[i][2]) \o ".0 "
                                  \o ToString(points[i][3]) \o ".0"
        /\ points = <<>> => disk[1][4] = "element vertex 0"

\* C8 witness: a file of several points has been written
C8_Witness == Written /\ Len(points) >= 2

\* C9: no execution of write ends with the handle still open, neither after
\* the last line nor when a write fails part-way.
C9_HandleReleasedOnEveryExit ==
    pc \in {"done", "raised"} => outputFile # "open"

\* C10 as stated: export either ends with the file fully written, or fails
\* with nothing of it at the target path.
C10_NoPartialFile ==
    /\ pc = "raised" => Untouched
    /\ (pc = "done" /\ ~ Untouched) => disk = <<WriteLines(points)>>

\* s is a proper prefix of t
ProperPrefix(s, t) == Len(s) < Len(t) /\ s = SubSeq(t, 1, Len(s))

\* C10 amended: a failure in extraction, bounds or sampling, or in opening the
\* file, leaves the target path as it was; a failure of a later writeLine
\* leaves there a proper prefix of the header and point lines, in place of what
\* the path held; an export that ends without failure and has opened the file
\* leaves it fully written.
C10_PartialFileOnlyAfterWriteFailure ==
    /\ (pc = "raised" /\ raised # "IOError") => Untouched
    /\ (pc = "raised" /\ raised = "IOError") =>
          \/ Untouched
          \/ /\ outputFile = "open"
             /\ Len(disk) = 1
             /\ ProperPrefix(disk[1], WriteLines(points))
    /\ (pc = "done" /\ ~ Untouched) => disk = <<WriteLines(points)>>

\* C10 witness: a writeLine has failed after the header and a point were written
C10_Witness ==
    /\ pc = "raised"
    /\ raised = "IOError"
    /\ outputFile = "open"
    /\ Len(disk[1]) > 10
    /\ Len(disk[1]) < 10 + Len(points)

\* C11: for every non-empty segment list and every voxelSize > 0 the box returned
\* by findBoundingBox has min[i] <= max[i] on each of the three axes, also when
\* the extrema of an axis have the same sign and lie in one voxel interval.
C11_BoxMinAtMostMax ==
    (bbox # <<>> /\ voxelSize > 0) =>
        \A axis \in 1 .. 3 : bbox[1][axis] <= bbox[2][axis]

\* findBoundingBox has returned a box for spheres of positive radius whose x
\* extrema are distinct, both positive and snapped to the same multiple, and
\* whose y extrema are distinct, both negative and snapped to the same multiple
C11_Witness ==
    /\ bbox # <<>>
    /\ voxelSize > 0
    /\ \A g \in 1 .. Len(Groups(lineSegments)) :
          Groups(lineSegments)[g][4] > 0 /\ Groups(lineSegments)[g][8] > 0
    /\ LET e == ExtentsReduced(lineSegments)
       IN  /\ 0 < e[1] /\ e[1] < e[2] /\ bbox[1][1] = bbox[2][1]
           /\ e[3] < e[4] /\ e[4] < 0 /\ bbox[1][2] = bbox[2][2]
\* A segment of the list whose two endpoints are at the same position
CoincidentSegment ==
    \E g \in 1 .. Len(Groups(lineSegments)) :
        LET s == Groups(lineSegments)[g]
        IN  <<s[1], s[2], s[3]>> = <<s[5], s[6], s[7]>>

\* C12: sdCapsule and calculateSD return a value for a segment whose endpoints
\* coincide (a = b) at every query point and never end in an error, so an
\* export with a positive voxel size of a parent and child sphere at the same
\* position is not aborted by the field evaluator.
C12_CoincidentEndpointsDoNotAbort ==
    (CoincidentSegment /\ voxelSize > 0) =>
        ~ (pc = "raised" /\ raised = "ZeroDivisionError")
\* The signed distance of some capsule of the list is strictly negative at p
InsideSomeCapsule(p) ==
    \E g \in 1 .. Len(Groups(lineSegments)) :
        SdSign(sDistances(p, lineSegments)[g]) < 0

\* C13: calculateSD returns a strictly negative value at a point exactly when
\* the signed distance of at least one capsule is strictly negative there, so
\* for given segments (of distinct endpoints), box and positive voxel size
\* sampleSD returns, for every smoothness k > 0, the grid points that are
\* inside some capsule: no smoothness ends the sampling in an error of smin,
\* and none adds or removes a sample point.
C13_SamplePointsIndependentOfSmoothness ==
    (bbox # <<>> /\ voxelSize > 0 /\ ~ CoincidentSegment) =>
        /\ ~ (pc = "raised" /\ raised \in {"OverflowError", "ValueError"})
        /\ Sampled =>
              PointSet(points) = { p \in BoxPoints : OnGrid(p) /\ InsideSomeCapsule(p) }
====
